---- MODULE Spec2Model ----
(***************************************************************************)
(* State-machine model of the recru-search program: the Study,            *)
(* Participant, Researcher, Consent and Admin accounts and the            *)
(* instruction handlers that mutate them.                                  *)
(*                                                                         *)
(* The repository holds two generations of handlers over the same         *)
(* accounts: the monolithic program module in lib.rs (mod recru_search)    *)
(* and the modular layout in instructions/ + state/.  Both are modelled;  *)
(* a handler of lib.rs carries the prefix recru_search_.                  *)
(*                                                                         *)
(* Every handler is one action.  The host runtime applies an instruction  *)
(* atomically: an Err return or a panic reverts every account write, so   *)
(* a failing handler changes only `last`, the record of the outcome.      *)
(***************************************************************************)
EXTENDS Integers, FiniteSets, Sequences, TLC

(* ------------------------------ bounds -------------------------------- *)

\* Largest max_participants a created study is given.
MaxCap == 2

\* Cap on the counters no handler bounds (completed_participants,
\* completed_studies, total_participants, consent counters, NFT balances).
MaxCount == 2

\* The largest value of a u32 counter (u32::MAX in the program), scaled
\* down so that the model checker can hold and reach it.
U32Max == 7

\* Longest institution name and credentials hash tried, in characters.
MaxLen == 2

\* u64::MAX of the reward total, scaled down.
U64Max == 5

\* Cap on a researcher's reputation_score, which grows by 10 with every
\* unit of an active_studies update.
MaxReputation == 30

(* ------------------------- program constants -------------------------- *)

\* ParticipantProfile::is_eligible_for_study: default minimum score.
MinReputation == 10

\* ParticipantProfile::is_eligible_for_study of participant.rs: the number
\* of active studies at which a participant stops being eligible.
MaxActiveStudies == 3

\* submit_feedback / submit_study_feedback: the highest rating and the
\* longest feedback text accepted.
MaxRating == 5

MaxFeedbackLen == 500

(* ------------------------------ entities ------------------------------ *)

Studies == {"s1", "s2"}
Participants == {"p1", "p2"}
Researchers == {"r1", "r2"}
Keys == {"k_admin", "k_other"}

\* Admin accounts.  InitializeAdmin and Initialize create the admin account
\* with `init` and no seeds, so it is an account at an address the caller
\* picks, and the handlers accept whichever Admin account they are passed.
AdminAccounts == {"a1", "a2"}
NoKey == "none"

\* lib.rs StudyStatus.
StudyStatusAll ==
    {"Draft", "PendingReview", "Active", "Inactive", "Completed", "Suspended", "Rejected"}

\* state/admin.rs and admin.rs StudyStatus: the argument type of the
\* modular update_study_status handlers.
StudyStatusModular == {"Active", "Inactive", "Completed", "Suspended"}

\* The status of a study account that no handler has written: the variant
\* with discriminant zero.  Draft in lib.rs (also what Study::new assigns),
\* Active in state/admin.rs.
ZeroStatus_recru_search == "Draft"

ZeroStatus == "Active"

None == -1

\* lib.rs ParticipantStatus, and the status of a participant account that
\* no handler has written: the variant with discriminant zero.
ParticipantStatusAll ==
    {"Active", "Suspended", "Banned", "Frozen", "Verified", "Unverified"}

ZeroParticipantStatus == "Active"

VARIABLES study, participant, researcher, admin, consent, nft, wallet, last

vars == <<study, participant, researcher, admin, consent, nft, wallet, last>>

(* ------------------------- checked arithmetic -------------------------- *)

\* u32::checked_add / checked_sub: None on overflow / underflow.
CheckedAdd(a, b) == IF a + b > U32Max THEN None ELSE a + b

CheckedSub(a, b) == IF a - b < 0 THEN None ELSE a - b

\* Study keys an enrollment record of a profile may hold: the two studies
\* of the model and two further study accounts.
ProfileStudyIds == Studies \cup {"s3", "s4"}

(* ------------------------------- Study --------------------------------- *)

\* analytics.average_rating is held as the exact fraction num / den;
\* 0.0 is the value Study::create and StudyAnalytics::default give it.
ZeroRating == [num |-> 0, den |-> 1]

\* analytics_total_participants is analytics.total_participants.
NoStudy ==
    [exists |-> FALSE, authority |-> NoKey, max_participants |-> 0,
     current_participants |-> 0, completed_participants |-> 0,
     is_active |-> FALSE, status |-> ZeroStatus, consented_participants |-> 0,
     analytics_total_participants |-> 0, average_rating |-> ZeroRating]

\* Study::create: every counter zero, is_active true; status is not
\* assigned and keeps the account's zero value.
Study_create(authority, max_participants) ==
    [exists |-> TRUE, authority |-> authority, max_participants |-> max_participants,
     current_participants |-> 0, completed_participants |-> 0,
     is_active |-> TRUE, status |-> ZeroStatus, consented_participants |-> 0,
     analytics_total_participants |-> 0, average_rating |-> ZeroRating]

\* Study::can_accept_participants with the capacity comparison off by one
\* (<= for <): the faulty variant the capacity invariant must exclude.
Study_can_accept_participants_off_by_one(st) ==
    IF ~st.is_active THEN "StudyInactive"
    ELSE IF ~(st.current_participants <= st.max_participants) THEN "StudyFull"
    ELSE "Ok"

\* Study::can_accept_participants: the error it returns, or "Ok".
Study_can_accept_participants(st) ==
    IF ~st.is_active THEN "StudyInactive"
    ELSE IF ~(st.current_participants < st.max_participants) THEN "StudyFull"
    ELSE "Ok"

\* Study::add_participant that computes the new count and does not store
\* it: the faulty variant the enrollment rule must exclude.
Study_add_participant_not_stored(st) ==
    LET ok == Study_can_accept_participants(st)
    IN  IF ok # "Ok" THEN [err |-> ok, st |-> st] ELSE [err |-> "Ok", st |-> st]

\* Study::add_participant: [err, st] with st the study after the call.
Study_add_participant(st) ==
    LET ok == Study_can_accept_participants(st)
        n == CheckedAdd(st.current_participants, 1)
    IN  IF ok # "Ok" THEN [err |-> ok, st |-> st]
        ELSE IF n = None THEN [err |-> "MaxParticipantsExceeded", st |-> st]
        ELSE [err |-> "Ok", st |-> [st EXCEPT !.current_participants = n]]

\* Study::complete_participant.
Study_complete_participant(st) ==
    LET n == CheckedAdd(st.completed_participants, 1)
    IN  IF n = None THEN [err |-> "InvalidParticipantStatus", st |-> st]
        ELSE [err |-> "Ok", st |-> [st EXCEPT !.completed_participants = n]]

\* Study::update_status (lib.rs): the legal transition table.  No handler
\* calls it; it is the table the status claims are measured against.
Study_update_status_legal(a, b) ==
    \/ a = "Draft" /\ b = "PendingReview"
    \/ a = "PendingReview" /\ b = "Active"
    \/ a = "Active" /\ b \in {"Inactive", "Completed", "Suspended"}
    \/ a = "Suspended" /\ b = "Active"

(* ----------------------------- Participant ----------------------------- *)

\* profile_active_studies and profile_completed_studies are the study ids
\* of profile.active_studies and profile.completed_studies, the
\* enrollment records of the profile; profile_ratings is the rating field
\* of the completed record of each study id (None: no rating);
\* profile_interests is the length of profile.interests; status and
\* status_reason (None, or the length of the text) are fields of the
\* lib.rs Participant.
NoParticipant ==
    [exists |-> FALSE, authority |-> NoKey, active_studies |-> 0,
     completed_studies |-> 0, has_active_consent |-> FALSE,
     consent_revoked |-> FALSE, reputation_score |-> 0,
     suspended |-> FALSE, banned |-> FALSE,
     profile_active_studies |-> {}, profile_completed_studies |-> {},
     profile_ratings |-> [id \in ProfileStudyIds |-> None],
     profile_interests |-> 0, status |-> ZeroParticipantStatus,
     status_reason |-> None]

\* Participant::create; the profile is left zero-initialised.
Participant_create(authority) ==
    [exists |-> TRUE, authority |-> authority, active_studies |-> 0,
     completed_studies |-> 0, has_active_consent |-> FALSE,
     consent_revoked |-> FALSE, reputation_score |-> 0,
     suspended |-> FALSE, banned |-> FALSE,
     profile_active_studies |-> {}, profile_completed_studies |-> {},
     profile_ratings |-> [id \in ProfileStudyIds |-> None],
     profile_interests |-> 0, status |-> ZeroParticipantStatus,
     status_reason |-> None]

Participant_increment_active_studies(pt) ==
    LET n == CheckedAdd(pt.active_studies, 1)
    IN  IF n = None THEN [err |-> "InvalidParticipantStatus", pt |-> pt]
        ELSE [err |-> "Ok", pt |-> [pt EXCEPT !.active_studies = n]]

Participant_increment_completed_studies(pt) ==
    LET n == CheckedAdd(pt.completed_studies, 1)
    IN  IF n = None THEN [err |-> "InvalidParticipantStatus", pt |-> pt]
        ELSE [err |-> "Ok", pt |-> [pt EXCEPT !.completed_studies = n]]

\* Participant::update_consent_status.
Participant_update_consent_status(pt, has_consent) ==
    [pt EXCEPT !.has_active_consent = has_consent,
               !.consent_revoked = ~has_consent]

\* ParticipantProfile::is_eligible_for_study of the modular layout, the
\* one issue_consent_nft calls: a reputation floor and nothing else.
ParticipantProfile_is_eligible_for_study(pt, st) ==
    pt.reputation_score >= MinReputation

(* ----------------------------- Researcher ------------------------------ *)

\* The strings institution and credentials_hash are kept by their length.
NoResearcher ==
    [exists |-> FALSE, institution |-> 0, credentials_hash |-> 0,
     is_verified |-> FALSE, credentials_verified |-> FALSE,
     total_participants |-> 0, studies_created |-> 0, active_studies |-> 0,
     reputation_score |-> 0]

\* Researcher::create (state/researcher.rs, researcher.rs): the error it
\* returns for the given string lengths.
Researcher_create_result(institution, credentials_hash) ==
    IF ~(institution > 0) THEN "InvalidInstitutionName"
    ELSE IF ~(credentials_hash > 0) THEN "InvalidCredentials"
    ELSE "Ok"

\* Researcher::create when it returns Ok: the record it writes.
Researcher_create(institution, credentials_hash) ==
    [NoResearcher EXCEPT !.exists = TRUE, !.institution = institution,
                         !.credentials_hash = credentials_hash,
                         !.is_verified = FALSE, !.total_participants = 0,
                         !.studies_created = 0, !.active_studies = 0,
                         !.reputation_score = 0]

\* Researcher::update_total_participants(delta).
Researcher_update_total_participants(rs, delta) ==
    LET n == IF delta > 0 THEN CheckedAdd(rs.total_participants, delta)
             ELSE CheckedSub(rs.total_participants, -delta)
    IN  IF n = None THEN [err |-> "InvalidStudyParameters", rs |-> rs]
        ELSE [err |-> "Ok", rs |-> [rs EXCEPT !.total_participants = n]]

\* Researcher::increment_studies_created.
Researcher_increment_studies_created(rs) ==
    LET n == CheckedAdd(rs.studies_created, 1)
    IN  IF n = None THEN [err |-> "InvalidStudyParameters", rs |-> rs]
        ELSE [err |-> "Ok", rs |-> [rs EXCEPT !.studies_created = n]]

\* Researcher::update_active_studies(delta): the is_verified requirement,
\* the checked update of active_studies, then reputation_score grows by
\* 10 * |delta|.  studies_created is neither read nor written.
Researcher_update_active_studies(rs, delta) ==
    LET n == IF delta > 0 THEN CheckedAdd(rs.active_studies, delta)
             ELSE CheckedSub(rs.active_studies, -delta)
        d == IF delta < 0 THEN -delta ELSE delta
    IN  IF ~rs.is_verified THEN [err |-> "NotVerified", rs |-> rs]
        ELSE IF n = None THEN [err |-> "InvalidStudyParameters", rs |-> rs]
        ELSE [err |-> "Ok",
              rs |-> [rs EXCEPT !.active_studies = n,
                                !.reputation_score = @ + d * 10]]

(* -------------------------------- Wallet ------------------------------- *)

\* One record for ParticipantWallet of state/wallet.rs (is_active,
\* total_rewards) and of wallet.rs (is_initialized, total_earned, rewards,
\* transactions, phantom_address).  total_rewards stands for both
\* cumulative totals; a reward is kept as study_id and amount, a
\* transaction as the study it names.  state/wallet.rs has no reward or
\* transaction list: a wallet it manages keeps both empty.
NoWallet ==
    [exists |-> FALSE, is_active |-> FALSE, is_initialized |-> FALSE,
     phantom_address |-> NoKey, total_rewards |-> 0,
     rewards |-> << >>, transactions |-> << >>]

CheckedAdd64_wrapping(a, b) == (a + b) % (U64Max + 1)

\* u64 checked_add.
CheckedAdd64(a, b) == IF a + b > U64Max THEN None ELSE a + b

\* ParticipantWallet::new (state/wallet.rs), as copied into the account by
\* initialize_phantom_wallet.
ParticipantWallet_new(phantom_public_key) ==
    [NoWallet EXCEPT !.exists = TRUE, !.phantom_address = phantom_public_key,
                     !.total_rewards = 0, !.is_active = TRUE]

\* ParticipantWallet::add_reward (state/wallet.rs): the wallet as the
\* method leaves it and the result it returns.
ParticipantWallet_add_reward(w, amount) ==
    IF ~w.is_active THEN [wallet |-> w, err |-> "InactiveWallet"]
    ELSE IF ~(amount > 0) THEN [wallet |-> w, err |-> "InvalidTokenAmount"]
    ELSE IF CheckedAdd64(w.total_rewards, amount) = None
    THEN [wallet |-> w, err |-> "RewardOverflow"]
    ELSE [wallet |-> [w EXCEPT !.total_rewards = CheckedAdd64(@, amount)],
          err |-> "Ok"]

\* ParticipantWallet::initialize (wallet.rs).
recru_search_ParticipantWallet_initialize(w, phantom_address) ==
    IF w.is_initialized THEN [wallet |-> w, err |-> "WalletAlreadyInitialized"]
    ELSE [wallet |-> [w EXCEPT !.exists = TRUE, !.phantom_address = phantom_address,
                               !.total_rewards = 0, !.is_initialized = TRUE,
                               !.rewards = << >>, !.transactions = << >>],
          err |-> "Ok"]

\* ParticipantWallet::add_reward (wallet.rs): the reward is pushed before
\* the checked addition, so on overflow the method returns RewardOverflow
\* with the reward already in self.rewards.
recru_search_ParticipantWallet_add_reward(w, study_id, amount) ==
    IF ~(amount > 0) THEN [wallet |-> w, err |-> "InvalidRewardAmount"]
    ELSE IF ~w.is_initialized THEN [wallet |-> w, err |-> "WalletNotInitialized"]
    ELSE LET pushed == [w EXCEPT !.rewards =
                           Append(@, [study_id |-> study_id, amount |-> amount])]
         IN  IF CheckedAdd64(w.total_rewards, amount) = None
             THEN [wallet |-> pushed, err |-> "RewardOverflow"]
             ELSE [wallet |-> [pushed EXCEPT
                                 !.total_rewards = CheckedAdd64(@, amount),
                                 !.transactions = Append(@, study_id)],
                   err |-> "Ok"]

\* The account data a handler leaves behind when a method it calls with `?`
\* returns err: the method's writes on Ok; on Err the handler returns the
\* error and the runtime restores the data of before the call.
Exit_keeps_writes(before, after, err) == after

Exit(before, after, err) == IF err = "Ok" THEN after ELSE before

(* -------------------------------- Admin -------------------------------- *)

NoAdmin ==
    [exists |-> FALSE, authority |-> NoKey, active_studies |-> 0,
     verified_researchers |-> 0, pending_verifications |-> 0]

\* Admin::is_authorized, and the inline admin.authority == authority.key().
Admin_is_authorized(ad, key) == ad.authority = key

\* u32 `+= 1` / `-= 1` without a checked_ call: the outcomes the build can
\* produce.  With overflow checks the instruction panics (None); without
\* them the value wraps.
UncheckedAdd(a, b) == IF a + b > U32Max THEN {None, (a + b) % (U32Max + 1)} ELSE {a + b}

UncheckedSub(a, b) == IF a - b < 0 THEN {None, (a - b) % (U32Max + 1)} ELSE {a - b}

\* The values the model lets dashboard.active_studies take: a few steps
\* up from zero, and a few steps down from the wrapped maximum.
DashWindow == {None} \cup (0..MaxCount) \cup ((U32Max - MaxCount + 1)..U32Max)

(* -------------------------------- Init --------------------------------- *)

\* The state after deployment and registration: initialize_admin has run
\* for account a1 with payer k_admin, every researcher has run
\* register_researcher (is_verified = false) and every participant
\* register_participant.  No study exists and the consent registry is not
\* initialised.
Init ==
    /\ study = [s \in Studies |-> NoStudy]
    /\ participant = [p \in Participants |-> Participant_create(p)]
    /\ researcher = [r \in Researchers |->
                       [NoResearcher EXCEPT !.exists = TRUE, !.institution = 1,
                                            !.credentials_hash = 1]]
    /\ admin = [a \in AdminAccounts |->
                  IF a = "a1"
                  THEN [NoAdmin EXCEPT !.exists = TRUE, !.authority = "k_admin"]
                  ELSE NoAdmin]
    /\ consent = [exists |-> FALSE, is_active |-> FALSE, total_issued |-> 0, total_revoked |-> 0]
    /\ nft = [p \in Participants |-> 0]
    /\ wallet = [p \in Participants |-> NoWallet]
    /\ last = [op |-> "none", err |-> "Ok"]

\* The state after deployment and initialize_admin, before anybody has
\* registered.
InitDeployed ==
    /\ study = [s \in Studies |-> NoStudy]
    /\ participant = [p \in Participants |-> NoParticipant]
    /\ researcher = [r \in Researchers |-> NoResearcher]
    /\ admin = [a \in AdminAccounts |->
                  IF a = "a1"
                  THEN [NoAdmin EXCEPT !.exists = TRUE, !.authority = "k_admin"]
                  ELSE NoAdmin]
    /\ consent = [exists |-> FALSE, is_active |-> FALSE, total_issued |-> 0, total_revoked |-> 0]
    /\ nft = [p \in Participants |-> 0]
    /\ wallet = [p \in Participants |-> NoWallet]
    /\ last = [op |-> "none", err |-> "Ok"]

\* An instruction that returned Err or panicked: nothing but `last` changes.
Fail(op, err) ==
    /\ last' = [op |-> op, err |-> err]
    /\ UNCHANGED <<study, participant, researcher, admin, consent, nft, wallet>>

(* --------------------------- study handlers ---------------------------- *)

\* instructions::create_study: the study account is `init`, so s must not
\* exist yet; the researcher account r is not checked for verification.
create_study(s, r, max_participants) ==
    /\ ~study[s].exists
    /\ researcher[r].exists
    /\ study' = [study EXCEPT ![s] = Study_create(r, max_participants)]
    /\ last' = [op |-> "create_study", err |-> "Ok"]
    /\ UNCHANGED <<participant, researcher, admin, consent, nft, wallet>>

\* recru_search::create_study (lib.rs): assigns authority, max_participants,
\* current_participants = 0 and is_active = true; status keeps the zero
\* value of the lib.rs enum.
recru_search_create_study(s, r, max_participants) ==
    /\ ~study[s].exists
    /\ researcher[r].exists
    /\ study' = [study EXCEPT ![s] =
                   [exists |-> TRUE, authority |-> r,
                    max_participants |-> max_participants,
                    current_participants |-> 0, completed_participants |-> 0,
                    is_active |-> TRUE, status |-> ZeroStatus_recru_search,
                    consented_participants |-> 0,
                    analytics_total_participants |-> 0,
                    average_rating |-> ZeroRating]]
    /\ last' = [op |-> "create_study", err |-> "Ok"]
    /\ UNCHANGED <<participant, researcher, admin, consent, nft, wallet>>

\* The sum of f[x] over the x in S.
RECURSIVE SumOver(_, _)
SumOver(f, S) ==
    IF S = {} THEN 0
    ELSE LET x == CHOOSE y \in S : TRUE
         IN  f[x] + SumOver(f, S \ {x})

\* instructions::join_study with the capacity of a study counted against
\* the participants of all studies together: the faulty variant that
\* independence of enrollments in different studies must exclude.
join_study_apply_shared_capacity(sf, pf, s, p) ==
    LET total == SumOver([x \in Studies |-> sf[x].current_participants], Studies)
        a == Study_add_participant(sf[s])
        i == Participant_increment_active_studies(pf[p])
    IN  IF ~sf[s].is_active
        THEN [err |-> "StudyInactive", study |-> sf, participant |-> pf]
        ELSE IF ~(total < sf[s].max_participants)
        THEN [err |-> "StudyFull", study |-> sf, participant |-> pf]
        ELSE IF a.err # "Ok" THEN [err |-> a.err, study |-> sf, participant |-> pf]
        ELSE IF i.err # "Ok" THEN [err |-> i.err, study |-> sf, participant |-> pf]
        ELSE [err |-> "Ok",
              study |-> [sf EXCEPT ![s] = a.st],
              participant |-> [pf EXCEPT ![p] = i.pt]]

\* instructions::join_study as a function of the study accounts sf and the
\* participant accounts pf: the result, and the accounts after the
\* instruction (as before it when the instruction fails).
join_study_apply(sf, pf, s, p) ==
    LET c == Study_can_accept_participants(sf[s])
        a == Study_add_participant(sf[s])
        i == Participant_increment_active_studies(pf[p])
    IN  IF c # "Ok" THEN [err |-> c, study |-> sf, participant |-> pf]
        ELSE IF a.err # "Ok" THEN [err |-> a.err, study |-> sf, participant |-> pf]
        ELSE IF i.err # "Ok" THEN [err |-> i.err, study |-> sf, participant |-> pf]
        ELSE [err |-> "Ok",
              study |-> [sf EXCEPT ![s] = a.st],
              participant |-> [pf EXCEPT ![p] = i.pt]]

\* instructions::join_study.
join_study(s, p) ==
    /\ study[s].exists /\ participant[p].exists
    /\ LET res == join_study_apply(study, participant, s, p)
       IN  IF res.err # "Ok" THEN Fail("join_study", res.err)
           ELSE /\ study' = res.study
                /\ participant' = res.participant
                /\ last' = [op |-> "join_study", err |-> "Ok"]
                /\ UNCHANGED <<researcher, admin, consent, nft, wallet>>

\* recru_search::join_study (lib.rs): the same two requirements inline,
\* then checked_add(1).unwrap() on both counters.
recru_search_join_study(s, p) ==
    /\ study[s].exists /\ participant[p].exists
    /\ LET st == study[s]
           pt == participant[p]
           n == CheckedAdd(st.current_participants, 1)
           m == CheckedAdd(pt.active_studies, 1)
       IN  IF ~st.is_active THEN Fail("join_study", "StudyInactive")
           ELSE IF ~(st.current_participants < st.max_participants)
                THEN Fail("join_study", "StudyFull")
           ELSE IF n = None \/ m = None THEN Fail("join_study", "Panic")
           ELSE /\ study' = [study EXCEPT ![s].current_participants = n]
                /\ participant' = [participant EXCEPT ![p].active_studies = m]
                /\ last' = [op |-> "join_study", err |-> "Ok"]
                /\ UNCHANGED <<researcher, admin, consent, nft, wallet>>

\* instructions::complete_study: three counter increments, no enrollment
\* check and no active_studies decrement.
complete_study(s, p, r) ==
    /\ study[s].exists /\ participant[p].exists /\ researcher[r].exists
    /\ study[s].completed_participants < MaxCount
    /\ participant[p].completed_studies < MaxCount
    /\ researcher[r].total_participants < MaxCount
    /\ LET c == Study_complete_participant(study[s])
           i == Participant_increment_completed_studies(participant[p])
           u == Researcher_update_total_participants(researcher[r], 1)
       IN  IF c.err # "Ok" THEN Fail("complete_study", c.err)
           ELSE IF i.err # "Ok" THEN Fail("complete_study", i.err)
           ELSE IF u.err # "Ok" THEN Fail("complete_study", u.err)
           ELSE /\ study' = [study EXCEPT ![s] = c.st]
                /\ participant' = [participant EXCEPT ![p] = i.pt]
                /\ researcher' = [researcher EXCEPT ![r] = u.rs]
                /\ last' = [op |-> "complete_study", err |-> "Ok"]
                /\ UNCHANGED <<admin, consent, nft, wallet>>

\* recru_search::complete_study (lib.rs): is_active and study-owner
\* requirements, the reward transfer (the token program may refuse it),
\* then active_studies - 1, completed_studies + 1, completed_participants + 1,
\* each with unwrap().
recru_search_complete_study(s, p, r, transfer_ok) ==
    /\ study[s].exists /\ participant[p].exists /\ researcher[r].exists
    /\ study[s].completed_participants < MaxCount
    /\ participant[p].completed_studies < MaxCount
    /\ LET st == study[s]
           pt == participant[p]
           a == CheckedSub(pt.active_studies, 1)
           c == CheckedAdd(pt.completed_studies, 1)
           n == CheckedAdd(st.completed_participants, 1)
       IN  IF ~st.is_active THEN Fail("complete_study", "StudyInactive")
           ELSE IF r # st.authority THEN Fail("complete_study", "UnauthorizedResearcher")
           ELSE IF ~transfer_ok THEN Fail("complete_study", "TokenError")
           ELSE IF a = None \/ c = None \/ n = None THEN Fail("complete_study", "Panic")
           ELSE /\ study' = [study EXCEPT ![s].completed_participants = n]
                /\ participant' = [participant EXCEPT ![p].active_studies = a,
                                                      ![p].completed_studies = c]
                /\ last' = [op |-> "complete_study", err |-> "Ok"]
                /\ UNCHANGED <<researcher, admin, consent, nft, wallet>>

(* ------------------------ study status handlers ------------------------ *)

\* instructions/study.rs update_study_status, called with admin account a
\* and signer key: writes the status, checks neither the signer nor the
\* transition.
study_update_study_status(a, key, s, status) ==
    /\ study[s].exists /\ admin[a].exists /\ key \in Keys
    /\ study' = [study EXCEPT ![s].status = status]
    /\ last' = [op |-> "update_study_status", err |-> "Ok"]
    /\ UNCHANGED <<participant, researcher, admin, consent, nft, wallet>>

\* instructions/admin.rs update_study_status: admin-only, then writes the
\* status.
admin_update_study_status(a, key, s, status) ==
    /\ study[s].exists /\ admin[a].exists
    /\ IF ~Admin_is_authorized(admin[a], key)
       THEN Fail("update_study_status", "UnauthorizedAdmin")
       ELSE /\ study' = [study EXCEPT ![s].status = status]
            /\ last' = [op |-> "update_study_status", err |-> "Ok"]
            /\ UNCHANGED <<participant, researcher, admin, consent, nft, wallet>>

\* Admin::update_study_status (admin.rs): writes the status, then moves
\* dashboard.active_studies by +1 for Active and -1 for Inactive with
\* plain += / -=.
Admin_update_study_status(ad, status) ==
    CASE status = "Active" -> UncheckedAdd(ad.active_studies, 1)
      [] status = "Inactive" -> UncheckedSub(ad.active_studies, 1)
      [] OTHER -> {ad.active_studies}

\* recru_search::update_study_status (lib.rs): admin-only, then
\* Admin::update_study_status.  n is the outcome of the counter update.
recru_search_update_study_status(a, key, s, status, n) ==
    /\ study[s].exists /\ admin[a].exists
    /\ n \in Admin_update_study_status(admin[a], status)
    /\ n \in DashWindow
    /\ IF ~Admin_is_authorized(admin[a], key)
       THEN Fail("update_study_status", "UnauthorizedAccess")
       ELSE IF n = None THEN Fail("update_study_status", "Panic")
       ELSE /\ study' = [study EXCEPT ![s].status = status]
            /\ admin' = [admin EXCEPT ![a].active_studies = n]
            /\ last' = [op |-> "update_study_status", err |-> "Ok"]
            /\ UNCHANGED <<participant, researcher, consent, nft, wallet>>

(* --------------------------- consent handlers -------------------------- *)

\* The consent credentials a participant holds: the consent NFTs minted to
\* the participant's token accounts and not yet burned.  The handlers never
\* call Consent::create, so the NFT is the only per-participant consent
\* artefact an issue produces.
ActiveConsents(p) == nft[p]

\* instructions::initialize_consent_nft: admin-only; the registry account
\* is init_if_needed, so the handler may run again and zero the counters.
\* The registry modelled is the one derived from admin account a1.
initialize_consent_nft(key) ==
    /\ admin["a1"].exists
    /\ IF ~Admin_is_authorized(admin["a1"], key)
       THEN Fail("initialize_consent_nft", "UnauthorizedAdmin")
       ELSE /\ consent' = [consent EXCEPT !.exists = TRUE, !.total_issued = 0,
                                          !.total_revoked = 0]
            /\ last' = [op |-> "initialize_consent_nft", err |-> "Ok"]
            /\ UNCHANGED <<study, participant, researcher, admin, nft, wallet>>

\* instructions::issue_consent_nft: eligibility, then the duplicate check,
\* then the writes, then the metadata and mint_to calls (mint_ok: whether
\* the token programs accept them).  Study::increment_consent is empty.
issue_consent_nft(p, s, mint_ok) ==
    /\ consent.exists /\ study[s].exists /\ participant[p].exists
    /\ consent.total_issued < MaxCount /\ nft[p] < MaxCount
    /\ IF ~ParticipantProfile_is_eligible_for_study(participant[p], study[s])
       THEN Fail("issue_consent_nft", "ParticipantNotEligible")
       ELSE IF participant[p].has_active_consent
       THEN Fail("issue_consent_nft", "DuplicateConsent")
       ELSE IF ~mint_ok THEN Fail("issue_consent_nft", "TokenError")
       ELSE /\ participant' =
                 [participant EXCEPT ![p] = Participant_update_consent_status(@, TRUE)]
            /\ consent' = [consent EXCEPT !.total_issued = @ + 1]
            /\ nft' = [nft EXCEPT ![p] = @ + 1]
            /\ last' = [op |-> "issue_consent_nft", err |-> "Ok"]
            /\ UNCHANGED <<study, researcher, admin, wallet>>

\* instructions::revoke_consent up to its return value: the
\* has_active_consent requirement, then the burn, which the token program
\* refuses on an empty account (burn_ok: whether it accepts otherwise).
revoke_consent_result(p, burn_ok) ==
    IF ~participant[p].has_active_consent THEN "NoActiveConsent"
    ELSE IF ~burn_ok \/ nft[p] = 0 THEN "TokenError"
    ELSE "Ok"

\* instructions::revoke_consent.
revoke_consent(p, burn_ok) ==
    /\ consent.exists /\ participant[p].exists
    /\ consent.total_revoked < MaxCount
    /\ LET e == revoke_consent_result(p, burn_ok)
       IN  IF e # "Ok" THEN Fail("revoke_consent", e)
           ELSE /\ participant' =
                     [participant EXCEPT ![p] = Participant_update_consent_status(@, FALSE)]
                /\ consent' = [consent EXCEPT !.total_revoked = @ + 1]
                /\ nft' = [nft EXCEPT ![p] = @ - 1]
                /\ last' = [op |-> "revoke_consent", err |-> "Ok"]
                /\ UNCHANGED <<study, researcher, admin, wallet>>

\* recru_search::issue_consent_nft (lib.rs): mint_to, then
\* has_active_consent = true and consented_participants + 1 (unwrap).  No
\* eligibility check and no duplicate check; consent_revoked_at is kept.
recru_search_issue_consent_nft(p, s, mint_ok) ==
    /\ study[s].exists /\ participant[p].exists
    /\ study[s].consented_participants < MaxCount /\ nft[p] < MaxCount
    /\ LET n == CheckedAdd(study[s].consented_participants, 1)
       IN  IF ~mint_ok THEN Fail("issue_consent_nft", "TokenError")
           ELSE IF n = None THEN Fail("issue_consent_nft", "Panic")
           ELSE /\ participant' = [participant EXCEPT ![p].has_active_consent = TRUE]
                /\ study' = [study EXCEPT ![s].consented_participants = n]
                /\ nft' = [nft EXCEPT ![p] = @ + 1]
                /\ last' = [op |-> "issue_consent_nft", err |-> "Ok"]
                /\ UNCHANGED <<researcher, admin, consent, wallet>>

\* recru_search::revoke_consent (lib.rs) up to its return value: the
\* burn, then consented_participants - 1 with unwrap().  There is no
\* has_active_consent requirement.
recru_search_revoke_consent_result(p, s, burn_ok) ==
    IF ~burn_ok \/ nft[p] = 0 THEN "TokenError"
    ELSE IF CheckedSub(study[s].consented_participants, 1) = None THEN "Panic"
    ELSE "Ok"

\* recru_search::revoke_consent (lib.rs): on success has_active_consent =
\* false and consent_revoked_at = now.
recru_search_revoke_consent(p, s, burn_ok) ==
    /\ study[s].exists /\ participant[p].exists
    /\ LET e == recru_search_revoke_consent_result(p, s, burn_ok)
       IN  IF e # "Ok" THEN Fail("revoke_consent", e)
           ELSE /\ participant' = [participant EXCEPT ![p].has_active_consent = FALSE,
                                                      ![p].consent_revoked = TRUE]
                /\ study' = [study EXCEPT
                               ![s].consented_participants = CheckedSub(@, 1)]
                /\ nft' = [nft EXCEPT ![p] = @ - 1]
                /\ last' = [op |-> "revoke_consent", err |-> "Ok"]
                /\ UNCHANGED <<researcher, admin, consent, wallet>>

(* ---------------------------- wallet handlers -------------------------- *)

\* instructions::initialize_phantom_wallet: the wallet account of
\* participant p is `init`, so it must not exist yet.
initialize_phantom_wallet(p, phantom_public_key) ==
    /\ participant[p].exists /\ ~wallet[p].exists
    /\ phantom_public_key \in Keys
    /\ wallet' = [wallet EXCEPT ![p] = ParticipantWallet_new(phantom_public_key)]
    /\ last' = [op |-> "initialize_phantom_wallet", err |-> "Ok"]
    /\ UNCHANGED <<study, participant, researcher, admin, consent, nft>>

\* instructions::receive_reward: checks the recipient token account (mint
\* and owner), then ParticipantWallet::add_reward.
receive_reward(p, amount, mint_ok, owner_ok) ==
    /\ wallet[p].exists
    /\ IF ~mint_ok THEN Fail("receive_reward", "InvalidTokenMint")
       ELSE IF ~owner_ok THEN Fail("receive_reward", "Unauthorized")
       ELSE /\ wallet' = [wallet EXCEPT ![p] =
                            Exit(@, ParticipantWallet_add_reward(@, amount).wallet,
                                 ParticipantWallet_add_reward(@, amount).err)]
            /\ last' = [op |-> "receive_reward",
                        err |-> ParticipantWallet_add_reward(wallet[p], amount).err]
            /\ UNCHANGED <<study, participant, researcher, admin, consent, nft>>

\* recru_search::initialize_phantom_wallet (lib.rs): the wallet account is
\* `init`; the authority must be the Phantom signer; then
\* ParticipantWallet::initialize.
recru_search_initialize_phantom_wallet(p, authority, phantom_wallet) ==
    /\ participant[p].exists /\ ~wallet[p].exists
    /\ authority \in Keys /\ phantom_wallet \in Keys
    /\ IF authority # phantom_wallet
       THEN Fail("initialize_phantom_wallet", "InvalidPhantomWallet")
       ELSE /\ wallet' = [wallet EXCEPT ![p] =
                 Exit(@, recru_search_ParticipantWallet_initialize(@, phantom_wallet).wallet,
                      recru_search_ParticipantWallet_initialize(@, phantom_wallet).err)]
            /\ last' = [op |-> "initialize_phantom_wallet",
                        err |-> recru_search_ParticipantWallet_initialize(
                                    wallet[p], phantom_wallet).err]
            /\ UNCHANGED <<study, participant, researcher, admin, consent, nft>>

\* recru_search::receive_reward (lib.rs): the Phantom signer must own the
\* wallet, the token transfer must go through, then
\* ParticipantWallet::add_reward.  update_transaction_status that follows
\* changes no field kept here.
recru_search_receive_reward(p, s, phantom_wallet, amount, transfer_ok) ==
    /\ wallet[p].exists /\ study[s].exists
    /\ IF wallet[p].phantom_address # phantom_wallet
       THEN Fail("receive_reward", "InvalidPhantomWallet")
       ELSE IF ~transfer_ok THEN Fail("receive_reward", "TransferFailed")
       ELSE /\ wallet' = [wallet EXCEPT ![p] =
                 Exit(@, recru_search_ParticipantWallet_add_reward(@, s, amount).wallet,
                      recru_search_ParticipantWallet_add_reward(@, s, amount).err)]
            /\ last' = [op |-> "receive_reward",
                        err |-> recru_search_ParticipantWallet_add_reward(
                                    wallet[p], s, amount).err]
            /\ UNCHANGED <<study, participant, researcher, admin, consent, nft>>

(* ------------------------- registration handlers ---------------------- *)

\* instructions::register_researcher: the researcher account is `init`, so
\* r must not exist yet; the handler writes the fields itself and does not
\* call Researcher::create.  The remaining fields keep the zero of a new
\* account.
register_researcher(r, institution, credentials_hash) ==
    /\ ~researcher[r].exists
    /\ researcher' = [researcher EXCEPT ![r] =
                        [NoResearcher EXCEPT !.exists = TRUE,
                                             !.institution = institution,
                                             !.credentials_hash = credentials_hash,
                                             !.is_verified = FALSE]]
    /\ last' = [op |-> "register_researcher", err |-> "Ok"]
    /\ UNCHANGED <<study, participant, admin, consent, nft, wallet>>

\* recru_search::register_researcher (lib.rs): the same writes.
recru_search_register_researcher(r, institution, credentials_hash) ==
    /\ ~researcher[r].exists
    /\ researcher' = [researcher EXCEPT ![r] =
                        [NoResearcher EXCEPT !.exists = TRUE,
                                             !.institution = institution,
                                             !.credentials_hash = credentials_hash,
                                             !.is_verified = FALSE]]
    /\ last' = [op |-> "recru_search_register_researcher", err |-> "Ok"]
    /\ UNCHANGED <<study, participant, admin, consent, nft, wallet>>

(* ---------------------------- admin handlers --------------------------- *)

ParticipantActions == {"Suspend", "Unsuspend", "Ban"}

\* initialize_admin (instructions/admin.rs, and lib.rs with the same
\* writes): the account a is `init`, so it must not exist yet; the payer
\* becomes the authority and the counters start at zero.
initialize_admin(a, payer) ==
    /\ ~admin[a].exists /\ payer \in Keys
    /\ admin' = [admin EXCEPT ![a] = [NoAdmin EXCEPT !.exists = TRUE,
                                                     !.authority = payer]]
    /\ last' = [op |-> "initialize_admin", err |-> "Ok"]
    /\ UNCHANGED <<study, participant, researcher, consent, nft, wallet>>

\* instructions::verify_researcher: admin-only, then sets is_verified.
verify_researcher(a, key, r) ==
    /\ admin[a].exists /\ researcher[r].exists
    /\ IF ~Admin_is_authorized(admin[a], key)
       THEN Fail("verify_researcher", "UnauthorizedAdmin")
       ELSE /\ researcher' = [researcher EXCEPT ![r].is_verified = TRUE]
            /\ last' = [op |-> "verify_researcher", err |-> "Ok"]
            /\ UNCHANGED <<study, participant, admin, consent, nft, wallet>>

\* instructions::reject_researcher: admin-only, then clears is_verified.
reject_researcher(a, key, r) ==
    /\ admin[a].exists /\ researcher[r].exists
    /\ IF ~Admin_is_authorized(admin[a], key)
       THEN Fail("reject_researcher", "UnauthorizedAdmin")
       ELSE /\ researcher' = [researcher EXCEPT ![r].is_verified = FALSE]
            /\ last' = [op |-> "reject_researcher", err |-> "Ok"]
            /\ UNCHANGED <<study, participant, admin, consent, nft, wallet>>

\* The outcome of an unchecked u32 update in a build that wraps on
\* overflow (wrap) or panics on it (None).
Outcome(results, wrap) ==
    IF None \in results
    THEN (IF wrap THEN CHOOSE x \in results : x # None ELSE None)
    ELSE CHOOSE x \in results : TRUE

\* Admin::verify_researcher (admin.rs), after its guard: adds one to
\* verified_researchers and takes one from pending_verifications with
\* plain += / -=.  A field is None when the update panics.
Admin_verify_researcher(ad, wrap) ==
    [ad EXCEPT !.verified_researchers = Outcome(UncheckedAdd(@, 1), wrap),
               !.pending_verifications = Outcome(UncheckedSub(@, 1), wrap)]

\* Admin::reject_researcher (admin.rs), after its guard: takes one from
\* pending_verifications.
Admin_reject_researcher(ad, wrap) ==
    [ad EXCEPT !.pending_verifications = Outcome(UncheckedSub(@, 1), wrap)]

Panicked(ad) == ad.verified_researchers = None \/ ad.pending_verifications = None

\* recru_search::verify_researcher (lib.rs): admin-only, then
\* Admin::verify_researcher, which refuses a researcher whose
\* credentials_verified is set and else sets it.
recru_search_verify_researcher(a, key, r, wrap) ==
    /\ admin[a].exists /\ researcher[r].exists
    /\ IF ~Admin_is_authorized(admin[a], key)
       THEN Fail("verify_researcher", "UnauthorizedAccess")
       ELSE IF researcher[r].credentials_verified
       THEN Fail("verify_researcher", "AlreadyVerified")
       ELSE IF Panicked(Admin_verify_researcher(admin[a], wrap))
       THEN Fail("verify_researcher", "Panic")
       ELSE /\ admin' = [admin EXCEPT ![a] = Admin_verify_researcher(@, wrap)]
            /\ researcher' = [researcher EXCEPT ![r].credentials_verified = TRUE]
            /\ last' = [op |-> "verify_researcher", err |-> "Ok"]
            /\ UNCHANGED <<study, participant, consent, nft, wallet>>

\* recru_search::reject_researcher (lib.rs): admin-only, then
\* Admin::reject_researcher, with the same guard; it clears
\* credentials_verified.
recru_search_reject_researcher(a, key, r, wrap) ==
    /\ admin[a].exists /\ researcher[r].exists
    /\ IF ~Admin_is_authorized(admin[a], key)
       THEN Fail("reject_researcher", "UnauthorizedAccess")
       ELSE IF researcher[r].credentials_verified
       THEN Fail("reject_researcher", "AlreadyVerified")
       ELSE IF Panicked(Admin_reject_researcher(admin[a], wrap))
       THEN Fail("reject_researcher", "Panic")
       ELSE /\ admin' = [admin EXCEPT ![a] = Admin_reject_researcher(@, wrap)]
            /\ researcher' = [researcher EXCEPT ![r].credentials_verified = FALSE]
            /\ last' = [op |-> "reject_researcher", err |-> "Ok"]
            /\ UNCHANGED <<study, participant, consent, nft, wallet>>

\* The match on ParticipantAction, the same in instructions::manage_participant
\* (fields suspended, banned) and Admin::manage_participant (is_suspended,
\* is_banned).
\* Admin::manage_participant in which Unsuspend lifts the ban as well: the
\* faulty variant that permanence of a ban must exclude.
Admin_manage_participant_unsuspend_unbans(pt, action) ==
    CASE action = "Suspend" -> [pt EXCEPT !.suspended = TRUE]
      [] action = "Unsuspend" -> [pt EXCEPT !.suspended = FALSE, !.banned = FALSE]
      [] action = "Ban" -> [pt EXCEPT !.banned = TRUE]

Admin_manage_participant(pt, action) ==
    CASE action = "Suspend" -> [pt EXCEPT !.suspended = TRUE]
      [] action = "Unsuspend" -> [pt EXCEPT !.suspended = FALSE]
      [] action = "Ban" -> [pt EXCEPT !.banned = TRUE]

\* instructions::manage_participant: admin-only, then the match.
manage_participant(a, key, p, action) ==
    /\ admin[a].exists /\ participant[p].exists
    /\ IF ~Admin_is_authorized(admin[a], key)
       THEN Fail("manage_participant", "UnauthorizedAdmin")
       ELSE /\ participant' =
                 [participant EXCEPT ![p] = Admin_manage_participant(@, action)]
            /\ last' = [op |-> "manage_participant", err |-> "Ok"]
            /\ UNCHANGED <<study, researcher, admin, consent, nft, wallet>>

\* recru_search::manage_participant (lib.rs): admin-only, then
\* Admin::manage_participant.
recru_search_manage_participant(a, key, p, action) ==
    /\ admin[a].exists /\ participant[p].exists
    /\ IF ~Admin_is_authorized(admin[a], key)
       THEN Fail("manage_participant", "UnauthorizedAccess")
       ELSE /\ participant' =
                 [participant EXCEPT ![p] = Admin_manage_participant(@, action)]
            /\ last' = [op |-> "manage_participant", err |-> "Ok"]
            /\ UNCHANGED <<study, researcher, admin, consent, nft, wallet>>

(* ---------------------------- specifications --------------------------- *)

\* Study creation, enrollment and completion over every study and
\* participant, with r1 the researcher of every study.
NextEnroll ==
    \/ \E s \in Studies, m \in 0..MaxCap : create_study(s, "r1", m)
    \/ \E s \in Studies, m \in 0..MaxCap : recru_search_create_study(s, "r1", m)
    \/ \E s \in Studies, p \in Participants : join_study(s, p)
    \/ \E s \in Studies, p \in Participants : recru_search_join_study(s, p)
    \/ \E s \in Studies, p \in Participants : complete_study(s, p, "r1")
    \/ \E s \in Studies, p \in Participants, ok \in BOOLEAN :
          recru_search_complete_study(s, p, "r1", ok)

SpecEnroll == Init /\ [][NextEnroll]_vars

\* Every study handler, on the study account s1.
NextStudy ==
    \/ \E r \in Researchers, m \in 0..MaxCap : create_study("s1", r, m)
    \/ \E r \in Researchers, m \in 0..MaxCap : recru_search_create_study("s1", r, m)
    \/ \E p \in Participants : join_study("s1", p)
    \/ \E p \in Participants : recru_search_join_study("s1", p)
    \/ \E p \in Participants, r \in Researchers : complete_study("s1", p, r)
    \/ \E p \in Participants, r \in Researchers, ok \in BOOLEAN :
          recru_search_complete_study("s1", p, r, ok)
    \/ \E k \in Keys, st \in StudyStatusModular :
          study_update_study_status("a1", k, "s1", st)
    \/ \E k \in Keys, st \in StudyStatusModular :
          admin_update_study_status("a1", k, "s1", st)
    \/ \E k \in Keys, st \in StudyStatusAll, n \in DashWindow :
          recru_search_update_study_status("a1", k, "s1", st, n)

SpecStudy == Init /\ [][NextStudy]_vars

\* Study creation, enrollment, and consent issue and revoke.
NextConsent ==
    \/ \E s \in Studies, m \in 0..MaxCap : create_study(s, "r1", m)
    \/ \E s \in Studies, p \in Participants : join_study(s, p)
    \/ \E k \in Keys : initialize_consent_nft(k)
    \/ \E s \in Studies, p \in Participants, ok \in BOOLEAN : issue_consent_nft(p, s, ok)
    \/ \E p \in Participants, ok \in BOOLEAN : revoke_consent(p, ok)
    \/ \E s \in Studies, p \in Participants, ok \in BOOLEAN :
          recru_search_issue_consent_nft(p, s, ok)
    \/ \E s \in Studies, p \in Participants, ok \in BOOLEAN :
          recru_search_revoke_consent(p, s, ok)

SpecConsent == Init /\ [][NextConsent]_vars

\* The admin handlers over both admin accounts, with one researcher, one
\* participant and one study.
NextAdmin ==
    \/ \E a \in AdminAccounts, k \in Keys : initialize_admin(a, k)
    \/ \E a \in AdminAccounts, k \in Keys : verify_researcher(a, k, "r1")
    \/ \E a \in AdminAccounts, k \in Keys : reject_researcher(a, k, "r1")
    \/ \E a \in AdminAccounts, k \in Keys, w \in BOOLEAN :
          recru_search_verify_researcher(a, k, "r1", w)
    \/ \E a \in AdminAccounts, k \in Keys, w \in BOOLEAN :
          recru_search_reject_researcher(a, k, "r1", w)
    \/ \E a \in AdminAccounts, k \in Keys, act \in ParticipantActions :
          manage_participant(a, k, "p1", act)
    \/ \E a \in AdminAccounts, k \in Keys, act \in ParticipantActions :
          recru_search_manage_participant(a, k, "p1", act)
    \/ create_study("s1", "r1", MaxCap)
    \/ \E a \in AdminAccounts, k \in Keys, st \in StudyStatusModular :
          study_update_study_status(a, k, "s1", st)
    \/ \E a \in AdminAccounts, k \in Keys, st \in StudyStatusModular :
          admin_update_study_status(a, k, "s1", st)

SpecAdmin == Init /\ [][NextAdmin]_vars

\* Researcher registration from the freshly deployed state, followed by
\* verification by the admin.
NextRegister ==
    \/ \E r \in Researchers, i \in 0..MaxLen, c \in 0..MaxLen :
          register_researcher(r, i, c)
    \/ \E r \in Researchers, i \in 0..MaxLen, c \in 0..MaxLen :
          recru_search_register_researcher(r, i, c)
    \/ \E r \in Researchers, k \in Keys : verify_researcher("a1", k, r)

SpecRegister == InitDeployed /\ [][NextRegister]_vars

\* The wallet of participant p1: initialization and rewards through both
\* generations of handlers, with the studies the rewards name.
NextWallet ==
    \/ \E s \in Studies : create_study(s, "r1", MaxCap)
    \/ \E k \in Keys : initialize_phantom_wallet("p1", k)
    \/ \E k1 \in Keys, k2 \in Keys : recru_search_initialize_phantom_wallet("p1", k1, k2)
    \/ \E amount \in 0..U64Max, mint_ok \in BOOLEAN, owner_ok \in BOOLEAN :
          receive_reward("p1", amount, mint_ok, owner_ok)
    \/ \E s \in Studies, k \in Keys, amount \in 0..U64Max, ok \in BOOLEAN :
          recru_search_receive_reward("p1", s, k, amount, ok)

SpecWallet == Init /\ [][NextWallet]_vars

\* The reward amounts tried where the wallet is one part among others:
\* none, the smallest, and the largest.
RewardAmounts == {0, 1, U64Max}

\* The operations whose writes cascade over several records (enrollment,
\* completion, consent issue and revoke, rewards) with the admin status
\* update, on one study and one participant.
NextAtomic ==
    \/ create_study("s1", "r1", 1)
    \/ join_study("s1", "p1")
    \/ recru_search_join_study("s1", "p1")
    \/ complete_study("s1", "p1", "r1")
    \/ \E ok \in BOOLEAN : recru_search_complete_study("s1", "p1", "r1", ok)
    \/ \E k \in Keys, st \in StudyStatusModular :
          admin_update_study_status("a1", k, "s1", st)
    \/ \E k \in Keys : initialize_consent_nft(k)
    \/ \E ok \in BOOLEAN : issue_consent_nft("p1", "s1", ok)
    \/ \E ok \in BOOLEAN : revoke_consent("p1", ok)
    \/ \E ok \in BOOLEAN : recru_search_issue_consent_nft("p1", "s1", ok)
    \/ \E ok \in BOOLEAN : recru_search_revoke_consent("p1", "s1", ok)
    \/ initialize_phantom_wallet("p1", "k_other")
    \/ \E k \in Keys : recru_search_initialize_phantom_wallet("p1", k, "k_other")
    \/ \E amount \in RewardAmounts, mint_ok \in BOOLEAN, owner_ok \in BOOLEAN :
          receive_reward("p1", amount, mint_ok, owner_ok)
    \/ \E k \in Keys, amount \in RewardAmounts, ok \in BOOLEAN :
          recru_search_receive_reward("p1", "s1", k, amount, ok)

SpecAtomic == Init /\ [][NextAtomic]_vars

(* -------------------------- participant status ------------------------- *)

\* Participant::new (lib.rs): the status it assigns.  No handler calls it.
Participant_new(authority) ==
    [Participant_create(authority) EXCEPT !.status = "Unverified"]

\* recru_search::register_participant (lib.rs): the account is `init`,
\* the handler assigns authority, eligibility_proof and registered_at and
\* nothing else, so status keeps its zero value.
recru_search_register_participant(p) ==
    /\ ~participant[p].exists
    /\ participant' = [participant EXCEPT ![p] =
                         [NoParticipant EXCEPT !.exists = TRUE, !.authority = p]]
    /\ last' = [op |-> "register_participant", err |-> "Ok"]
    /\ UNCHANGED <<study, researcher, admin, consent, nft, wallet>>

\* Participant::update_status (lib.rs): the transitions its match accepts.
Participant_update_status_result(from, to) ==
    IF \/ from = "Active" /\ to \in {"Suspended", "Banned", "Frozen"}
       \/ from \in {"Suspended", "Frozen", "Banned"} /\ to = "Active"
    THEN "Ok"
    ELSE "InvalidParticipantAction"

\* A call of Participant::update_status(status, reason) on participant p.
update_status(p, status, reason) ==
    /\ participant[p].exists
    /\ LET e == Participant_update_status_result(participant[p].status, status)
       IN  IF e # "Ok" THEN Fail("update_status", e)
           ELSE /\ participant' = [participant EXCEPT ![p].status = status,
                                                      ![p].status_reason = reason]
                /\ last' = [op |-> "update_status", err |-> "Ok"]
                /\ UNCHANGED <<study, researcher, admin, consent, nft, wallet>>

\* Registration and status updates, from the state after deployment.
NextParticipantStatus ==
    \/ \E p \in Participants : recru_search_register_participant(p)
    \/ \E p \in Participants, st \in ParticipantStatusAll, reason \in {None, 1} :
          update_status(p, st, reason)

SpecParticipantStatus == InitDeployed /\ [][NextParticipantStatus]_vars

(* ------------------------- self-service signers ------------------------ *)

\* The keys that sign self-service instructions: in Init every participant
\* account has its own id as authority.
Signers == Participants

\* contexts::JoinStudy, IssueConsentNFT, RevokeConsent: authority is a
\* Signer and participant a mutable account; no constraint relates them.
JoinStudy_accounts(signer, pt) == "Ok"

IssueConsentNFT_accounts(signer, pt) == "Ok"

RevokeConsent_accounts(signer, pt) == "Ok"

\* contexts::UpdateParticipantProfile and UpdateInterests: has_one =
\* authority, then the constraint !participant.banned.
UpdateInterests_accounts(signer, pt) ==
    IF pt.authority # signer THEN "ConstraintHasOne"
    ELSE IF pt.banned THEN "Unauthorized"
    ELSE "Ok"

\* join_study of instructions/study.rs behind its account validation.
JoinStudy(signer, s, p) ==
    IF JoinStudy_accounts(signer, participant[p]) # "Ok"
    THEN Fail("join_study", JoinStudy_accounts(signer, participant[p]))
    ELSE join_study(s, p)

\* issue_consent_nft of lib.rs behind its account validation.
IssueConsentNFT(signer, p, s) ==
    IF IssueConsentNFT_accounts(signer, participant[p]) # "Ok"
    THEN Fail("issue_consent_nft", IssueConsentNFT_accounts(signer, participant[p]))
    ELSE recru_search_issue_consent_nft(p, s, TRUE)

\* revoke_consent of instructions/consent.rs behind its account
\* validation.
RevokeConsent(signer, p) ==
    IF RevokeConsent_accounts(signer, participant[p]) # "Ok"
    THEN Fail("revoke_consent", RevokeConsent_accounts(signer, participant[p]))
    ELSE revoke_consent(p, TRUE)

\* instructions::update_interests and update_participant_profile: both
\* assign profile.interests.
update_interests(signer, p, interests) ==
    /\ participant[p].exists
    /\ LET e == UpdateInterests_accounts(signer, participant[p])
       IN  IF e # "Ok" THEN Fail("update_interests", e)
           ELSE /\ participant' = [participant EXCEPT ![p].profile_interests = interests]
                /\ last' = [op |-> "update_interests", err |-> "Ok"]
                /\ UNCHANGED <<study, researcher, admin, consent, nft, wallet>>

update_participant_profile(signer, p, interests) ==
    /\ participant[p].exists
    /\ LET e == UpdateInterests_accounts(signer, participant[p])
       IN  IF e # "Ok" THEN Fail("update_participant_profile", e)
           ELSE /\ participant' = [participant EXCEPT ![p].profile_interests = interests]
                /\ last' = [op |-> "update_participant_profile", err |-> "Ok"]
                /\ UNCHANGED <<study, researcher, admin, consent, nft, wallet>>

\* The self-service instructions with their signers, the consent registry
\* set-up and the admin's ban.
NextSelfService ==
    \/ create_study("s1", "r1", MaxCap)
    \/ initialize_consent_nft("k_admin")
    \/ \E k \in Signers, p \in Participants : JoinStudy(k, "s1", p)
    \/ \E k \in Signers, p \in Participants : IssueConsentNFT(k, p, "s1")
    \/ \E k \in Signers, p \in Participants : RevokeConsent(k, p)
    \/ \E k \in Signers, p \in Participants, i \in 0..MaxLen :
          update_interests(k, p, i)
    \/ \E k \in Signers, p \in Participants, i \in 0..MaxLen :
          update_participant_profile(k, p, i)
    \/ \E p \in Participants : manage_participant("a1", "k_admin", p, "Ban")

SpecSelfService == Init /\ [][NextSelfService]_vars

(* ------------------------------ feedback ------------------------------ *)

\* Ratings tried (a u8): both ends of the accepted range and one beyond
\* each.
Ratings == {0, 1, MaxRating, MaxRating + 1}

\* Feedback arguments tried (an Option<String>): None, or the length of
\* the text.
Feedbacks == {None, MaxFeedbackLen, MaxFeedbackLen + 1}

\* Study::submit_feedback: the two requirements; nothing is stored.
Study_submit_feedback(rating, feedback) ==
    IF ~(rating <= MaxRating) THEN "InvalidRating"
    ELSE IF feedback # None /\ ~(feedback <= MaxFeedbackLen) THEN "FeedbackTooLong"
    ELSE "Ok"

\* instructions::submit_study_feedback: the context holds the study
\* account only, and the handler does nothing beyond Study::submit_feedback.
submit_study_feedback(s, rating, feedback) ==
    /\ study[s].exists
    /\ LET e == Study_submit_feedback(rating, feedback)
       IN  IF e # "Ok" THEN Fail("submit_study_feedback", e)
           ELSE /\ last' = [op |-> "submit_study_feedback", err |-> "Ok"]
                /\ UNCHANGED <<study, participant, researcher, admin, consent,
                               nft, wallet>>

RECURSIVE SumRatings(_, _)
SumRatings(ratings, ids) ==
    IF ids = {} THEN 0
    ELSE LET id == CHOOSE x \in ids : TRUE
         IN  (IF ratings[id] = None THEN 0 ELSE ratings[id])
                + SumRatings(ratings, ids \ {id})

\* ParticipantProfile::calculate_reputation_score: 10 for every completed
\* record plus the ratings the records hold.
ParticipantProfile_calculate_reputation_score(pt) ==
    Cardinality(pt.profile_completed_studies) * 10
       + SumRatings(pt.profile_ratings, pt.profile_completed_studies)

\* recru_search::submit_study_feedback (lib.rs) up to its return value:
\* the rating range, the feedback length, then the lookup of the completed
\* record of the study in the profile.
recru_search_submit_study_feedback_result(s, p, rating, feedback) ==
    IF ~(rating >= 1 /\ rating <= MaxRating) THEN "InvalidRating"
    ELSE IF feedback # None /\ ~(feedback <= MaxFeedbackLen) THEN "FeedbackTooLong"
    ELSE IF s \notin participant[p].profile_completed_studies THEN "StudyNotFound"
    ELSE "Ok"

\* recru_search::submit_study_feedback (lib.rs): on success the record
\* takes the rating, average_rating becomes
\* (average_rating * n + rating) / (n + 1) with n =
\* analytics.total_participants, which the handler leaves as it is, and the
\* profile's reputation score is recomputed.
recru_search_submit_study_feedback(s, p, rating, feedback) ==
    /\ study[s].exists /\ participant[p].exists
    /\ LET e == recru_search_submit_study_feedback_result(s, p, rating, feedback)
           n == study[s].analytics_total_participants
           avg == study[s].average_rating
           rated == [participant[p] EXCEPT !.profile_ratings[s] = rating]
       IN  IF e # "Ok" THEN Fail("submit_study_feedback", e)
           ELSE /\ participant' =
                     [participant EXCEPT ![p] =
                        [rated EXCEPT !.reputation_score =
                           ParticipantProfile_calculate_reputation_score(rated)]]
                /\ study' = [study EXCEPT ![s].average_rating =
                               [num |-> avg.num * n + rating * avg.den,
                                den |-> avg.den * (n + 1)]]
                /\ last' = [op |-> "submit_study_feedback", err |-> "Ok"]
                /\ UNCHANGED <<researcher, admin, consent, nft, wallet>>

\* Study creation, enrollment, completion and feedback.
NextFeedback ==
    \/ \E s \in Studies : create_study(s, "r1", MaxCap)
    \/ \E s \in Studies, p \in Participants : join_study(s, p)
    \/ \E s \in Studies, p \in Participants : complete_study(s, p, "r1")
    \/ \E s \in Studies, r \in Ratings, f \in Feedbacks :
          submit_study_feedback(s, r, f)
    \/ \E s \in Studies, p \in Participants, r \in Ratings, f \in Feedbacks :
          recru_search_submit_study_feedback(s, p, r, f)

SpecFeedback == Init /\ [][NextFeedback]_vars

(* ------------------------- researcher counters ------------------------- *)

\* A call of Researcher::update_active_studies(delta) on researcher r; an
\* Err leaves the account as it was.
update_active_studies(r, delta) ==
    /\ researcher[r].exists
    /\ researcher[r].reputation_score < MaxReputation
    /\ LET res == Researcher_update_active_studies(researcher[r], delta)
       IN  IF res.err # "Ok" THEN Fail("update_active_studies", res.err)
           ELSE /\ researcher' = [researcher EXCEPT ![r] = res.rs]
                /\ last' = [op |-> "update_active_studies", err |-> "Ok"]
                /\ UNCHANGED <<study, participant, admin, consent, nft, wallet>>

\* A call of Researcher::increment_studies_created on researcher r.
increment_studies_created(r) ==
    /\ researcher[r].exists
    /\ researcher[r].studies_created < MaxCount
    /\ LET res == Researcher_increment_studies_created(researcher[r])
       IN  IF res.err # "Ok" THEN Fail("increment_studies_created", res.err)
           ELSE /\ researcher' = [researcher EXCEPT ![r] = res.rs]
                /\ last' = [op |-> "increment_studies_created", err |-> "Ok"]
                /\ UNCHANGED <<study, participant, admin, consent, nft, wallet>>

Deltas == {-1, 1}

\* Registration, verification, study creation and the two counter methods
\* of Researcher, from the state after deployment.
NextResearcher ==
    \/ \E r \in Researchers : register_researcher(r, 1, 1)
    \/ \E r \in Researchers : recru_search_register_researcher(r, 1, 1)
    \/ \E r \in Researchers, k \in Keys : verify_researcher("a1", k, r)
    \/ \E r \in Researchers, k \in Keys : reject_researcher("a1", k, r)
    \/ \E s \in Studies, r \in Researchers : create_study(s, r, MaxCap)
    \/ \E s \in Studies, r \in Researchers : recru_search_create_study(s, r, MaxCap)
    \/ \E r \in Researchers, d \in Deltas : update_active_studies(r, d)
    \/ \E r \in Researchers : increment_studies_created(r)

SpecResearcher == InitDeployed /\ [][NextResearcher]_vars

(* ------------------------- eligibility predicate ----------------------- *)

\* Reputation scores tried, around the minimum score.
ReputationScores == {0, MinReputation - 1, MinReputation, MinReputation + 1}

\* The inputs of ParticipantProfile::is_eligible_for_study: both studies
\* exist, the consent registry is initialised, and the profile of p1 holds
\* any reputation score and any completed and active enrollment records.
InitEligible ==
    /\ study = [s \in Studies |-> Study_create("r1", MaxCap)]
    /\ \E score \in ReputationScores :
       \E completed \in SUBSET ProfileStudyIds, active \in SUBSET ProfileStudyIds :
          participant =
             [p \in Participants |->
                IF p = "p1"
                THEN [Participant_create(p) EXCEPT
                         !.reputation_score = score,
                         !.profile_completed_studies = completed,
                         !.profile_active_studies = active]
                ELSE Participant_create(p)]
    /\ researcher = [r \in Researchers |->
                       [NoResearcher EXCEPT !.exists = TRUE, !.institution = 1,
                                            !.credentials_hash = 1]]
    /\ admin = [a \in AdminAccounts |->
                  IF a = "a1"
                  THEN [NoAdmin EXCEPT !.exists = TRUE, !.authority = "k_admin"]
                  ELSE NoAdmin]
    /\ consent = [exists |-> TRUE, is_active |-> FALSE, total_issued |-> 0, total_revoked |-> 0]
    /\ nft = [p \in Participants |-> 0]
    /\ wallet = [p \in Participants |-> NoWallet]
    /\ last = [op |-> "none", err |-> "Ok"]

\* Consent issuance, which applies the predicate, and revocation.
NextEligible ==
    \/ \E s \in Studies, ok \in BOOLEAN : issue_consent_nft("p1", s, ok)
    \/ \E ok \in BOOLEAN : revoke_consent("p1", ok)

SpecEligible == InitEligible /\ [][NextEligible]_vars

(* ------------------------- properties: studies ------------------------- *)

\* C1: in every reachable state every study has
\* 0 <= current_participants <= max_participants.
C1_CurrentWithinMax ==
    \A s \in Studies :
        study[s].exists =>
            /\ 0 <= study[s].current_participants
            /\ study[s].current_participants <= study[s].max_participants

\* A study filled to a non-zero capacity that has also seen a completion
\* and a status update.
C1_FullStudy ==
    \E s \in Studies :
        /\ study[s].exists
        /\ study[s].max_participants = MaxCap
        /\ study[s].current_participants = study[s].max_participants
        /\ study[s].completed_participants > 0
        /\ last = [op |-> "update_study_status", err |-> "Ok"]

\* C2: in every reachable state every study has
\* completed_participants <= current_participants.
C2_CompletedWithinCurrent ==
    \A s \in Studies :
        study[s].exists =>
            study[s].completed_participants <= study[s].current_participants

\* A step of either join_study handler on study s for participant p.
JoinStep(s, p) == join_study(s, p) \/ recru_search_join_study(s, p)

C9_EnrollOnlyWhileActive ==
    [][\A s \in Studies, p \in Participants :
          (/\ JoinStep(s, p)
           /\ study[s].status # "Active"
           /\ study[s].current_participants < study[s].max_participants) =>
              /\ last'.err = "StudyInactive"
              /\ UNCHANGED <<study, participant>>]_vars

\* A status update of study s to newStatus requested by the authority of
\* admin account a1, through any of the three handlers.
AdminStatusUpdate(s, newStatus) ==
    \/ study_update_study_status("a1", admin["a1"].authority, s, newStatus)
    \/ admin_update_study_status("a1", admin["a1"].authority, s, newStatus)
    \/ \E n \in DashWindow :
          recru_search_update_study_status("a1", admin["a1"].authority, s, newStatus, n)

\* C10: a status update by the admin from a to b succeeds and stores b
\* when (a, b) is in the legal table of Study::update_status; for every
\* other pair it fails with InvalidStatusTransition and leaves the study
\* unchanged.
C10_LegalTransitionsOnly ==
    [][\A s \in Studies, b \in StudyStatusAll :
          AdminStatusUpdate(s, b) =>
              IF Study_update_status_legal(study[s].status, b)
              THEN last'.err = "Ok" /\ study'[s].status = b
              ELSE last'.err = "InvalidStatusTransition" /\ UNCHANGED study]_vars

(* ------------------------- properties: consent ------------------------- *)

\* C3: for every participant p, has_active_consent is true if and only if
\* p holds exactly one active consent.
C3_FlagIffOneActiveConsent ==
    \A p \in Participants :
        participant[p].has_active_consent <=> (ActiveConsents(p) = 1)

\* C4: no participant holds more than one active consent at a time,
\* whatever the studies the consents were issued for.
C4_AtMostOneActiveConsent ==
    \A p \in Participants : ActiveConsents(p) <= 1

\* A call of either issue_consent_nft handler for participant p and study
\* s that the token programs accept.
IssueStep(p, s) ==
    issue_consent_nft(p, s, TRUE) \/ recru_search_issue_consent_nft(p, s, TRUE)

\* C5: issuing consent for a participant whose has_active_consent is true
\* fails and changes no participant, study or consent state.  The error
\* the claim names is DuplicateConsent; the formula accepts any error, so
\* that only an issue that goes through violates it.
C5_DuplicateIssueRefused ==
    [][\A p \in Participants, s \in Studies :
          (IssueStep(p, s) /\ participant[p].has_active_consent) =>
              /\ last'.err # "Ok"
              /\ UNCHANGED <<participant, study, consent, nft>>]_vars

\* A successful revoke of participant p's consent, by either handler.
RevokeOk(p) ==
    /\ \/ revoke_consent(p, TRUE)
       \/ \E s \in Studies : recru_search_revoke_consent(p, s, TRUE)
    /\ last'.err = "Ok"

\* C6: right after a successful revoke for participant p, a second revoke
\* for p fails, through either handler and for any study (a handler that
\* returns an error changes no state).  The error the claim names is
\* NoActiveConsent; the formula accepts any error, so that only a second
\* revoke that goes through violates it.
C6_SecondRevokeRefused ==
    [][\A p \in Participants :
          RevokeOk(p) =>
              /\ consent'.exists => revoke_consent_result(p, TRUE)' # "Ok"
              /\ \A s \in Studies :
                    study'[s].exists =>
                        recru_search_revoke_consent_result(p, s, TRUE)' # "Ok"]_vars

\* C7: issuing consent for a participant with MaxActiveStudies active
\* studies fails the eligibility check and changes no participant, study
\* or consent state.
C7_IssueAtCapRefused ==
    [][\A p \in Participants, s \in Studies :
          (IssueStep(p, s) /\ participant[p].active_studies = MaxActiveStudies) =>
              /\ last'.err = "ParticipantNotEligible"
              /\ UNCHANGED <<participant, study, consent, nft>>]_vars

(* ---------------------- properties: administration --------------------- *)

\* The counters of study s.
StudyCounters(s) ==
    <<study[s].current_participants, study[s].completed_participants,
      study[s].max_participants>>

\* C11: when the admin moves an Active study to Suspended, the study's
\* counters keep their values and every successful move back to Active
\* leaves dashboard.active_studies at the value it had before the two
\* transitions; the move back leaves the study's counters alone too.
C11_SuspendResumeKeepsCounters ==
    [][\A s \in Studies :
          /\ (/\ AdminStatusUpdate(s, "Suspended")
              /\ study[s].status = "Active"
              /\ last'.err = "Ok") =>
                 /\ StudyCounters(s)' = StudyCounters(s)
                 /\ \A n \in Admin_update_study_status(admin["a1"], "Active")' \ {None} :
                       n = admin["a1"].active_studies
          /\ (/\ AdminStatusUpdate(s, "Active")
              /\ study[s].status = "Suspended") =>
                 StudyCounters(s)' = StudyCounters(s)]_vars

\* Participant::update_status (lib.rs): the pairs (from, to) it accepts.
Participant_update_status_legal(a, b) ==
    \/ a = "Active" /\ b \in {"Suspended", "Banned", "Frozen"}
    \/ a \in {"Suspended", "Frozen", "Banned"} /\ b = "Active"

\* The status a participant record stands for: the handlers keep it in the
\* flags banned and suspended.
ParticipantStatusOf(pt) ==
    IF pt.banned THEN "Banned" ELSE IF pt.suspended THEN "Suspended" ELSE "Active"

\* The status a ParticipantAction asks for.
ActionTarget(action) ==
    CASE action = "Suspend" -> "Suspended"
      [] action = "Unsuspend" -> "Active"
      [] action = "Ban" -> "Banned"

\* A participant status update requested by the authority of admin
\* account a1, through either handler.
ManageStep(p, action) ==
    \/ manage_participant("a1", admin["a1"].authority, p, action)
    \/ recru_search_manage_participant("a1", admin["a1"].authority, p, action)

\* C12: a participant status update from a to b requested by the admin
\* succeeds exactly when (a, b) is a legal pair (Active to Suspended, Banned
\* or Frozen; Suspended, Frozen or Banned to Active); any other update
\* fails with InvalidParticipantAction and leaves the participant as it
\* was.
C12_LegalParticipantUpdatesOnly ==
    [][\A p \in Participants, action \in ParticipantActions :
          ManageStep(p, action) =>
             IF Participant_update_status_legal(ParticipantStatusOf(participant[p]),
                                                ActionTarget(action))
             THEN last'.err = "Ok"
             ELSE /\ last'.err = "InvalidParticipantAction"
                  /\ participant' = participant]_vars

AuthorizationErrors == {"UnauthorizedAdmin", "UnauthorizedAccess"}

\* Any of the admin-only operations, invoked with admin account a by the
\* signer key.
AdminOnlyStep(a, key) ==
    \/ \E r \in Researchers : verify_researcher(a, key, r)
    \/ \E r \in Researchers : reject_researcher(a, key, r)
    \/ \E r \in Researchers, w \in BOOLEAN : recru_search_verify_researcher(a, key, r, w)
    \/ \E r \in Researchers, w \in BOOLEAN : recru_search_reject_researcher(a, key, r, w)
    \/ \E s \in Studies, st \in StudyStatusModular : study_update_study_status(a, key, s, st)
    \/ \E s \in Studies, st \in StudyStatusModular : admin_update_study_status(a, key, s, st)
    \/ \E s \in Studies, st \in StudyStatusAll, n \in DashWindow :
          recru_search_update_study_status(a, key, s, st, n)
    \/ \E p \in Participants, act \in ParticipantActions : manage_participant(a, key, p, act)
    \/ \E p \in Participants, act \in ParticipantActions :
          recru_search_manage_participant(a, key, p, act)

\* C13: an admin-only operation (verify researcher, reject researcher,
\* update study status, manage participant) invoked by a signer other than
\* the authority of the admin account fails with an authorization error
\* and leaves the researcher, study, participant and admin records
\* unchanged.
C13_AdminOnlyRefusesOthers ==
    [][\A a \in AdminAccounts, key \in Keys :
          (/\ admin[a].exists
           /\ key # admin[a].authority
           /\ AdminOnlyStep(a, key)) =>
              /\ last'.err \in AuthorizationErrors
              /\ UNCHANGED <<researcher, study, participant, admin>>]_vars

\* C14: the platform has a single admin authority: admin initialization
\* succeeds at most once, and once an admin is initialised its authority
\* never changes.
C14_SingleAdminAuthority ==
    [][/\ \A a \in AdminAccounts, payer \in Keys :
             initialize_admin(a, payer) => \A x \in AdminAccounts : ~admin[x].exists
       /\ \A x \in AdminAccounts :
             admin[x].exists => admin'[x].authority = admin[x].authority]_vars

\* C20: verifying a researcher who is already verified, requested by the
\* admin authority, fails with AlreadyVerified and changes neither the
\* researcher nor admin.verified_researchers.  Each handler is judged on
\* the flag it sets itself.
C20_VerifyTwiceRefused ==
    [][\A r \in Researchers :
          /\ (/\ researcher[r].is_verified
              /\ verify_researcher("a1", admin["a1"].authority, r)) =>
                 /\ last'.err = "AlreadyVerified"
                 /\ UNCHANGED <<researcher, admin>>
          /\ (/\ researcher[r].credentials_verified
              /\ \E w \in BOOLEAN :
                    recru_search_verify_researcher("a1", admin["a1"].authority, r, w)) =>
                 /\ last'.err = "AlreadyVerified"
                 /\ UNCHANGED <<researcher, admin>>]_vars

(* ----------------------- properties: registration ---------------------- *)

RegisterStep(r, institution, credentials_hash) ==
    \/ register_researcher(r, institution, credentials_hash)
    \/ recru_search_register_researcher(r, institution, credentials_hash)

\* C19: registering a researcher with an empty institution fails with
\* InvalidInstitutionName and with an empty credentials hash fails with
\* InvalidCredentials, creating no researcher; with both non-empty it
\* succeeds and the researcher starts unverified with its counters at zero.
C19_RegistrationValidated ==
    [][\A r \in Researchers, i \in 0..MaxLen, c \in 0..MaxLen :
          RegisterStep(r, i, c) =>
             /\ last'.err = Researcher_create_result(i, c)
             /\ IF Researcher_create_result(i, c) = "Ok"
                THEN researcher'[r] = Researcher_create(i, c)
                ELSE researcher' = researcher]_vars

(* ------------------------- properties: wallet -------------------------- *)

\* The sum of the amounts of a sequence of rewards.
RECURSIVE SumAmounts(_)
SumAmounts(rewards) ==
    IF rewards = << >> THEN 0
    ELSE Head(rewards).amount + SumAmounts(Tail(rewards))

\* addReward on the wallet of p for study s, through either handler, past
\* the handler's own checks of signer and token accounts.
AddRewardStep(p, s, amount) ==
    \/ receive_reward(p, amount, TRUE, TRUE)
    \/ recru_search_receive_reward(p, s, wallet[p].phantom_address, amount, TRUE)

\* C15: after a successful addReward(wallet, studyId, amount) the wallet's
\* total is its total before the call plus amount, and exactly one reward
\* entry, of that amount, has been appended to the wallet's reward entries.
C15_RewardAddsAmountAndEntry ==
    [][\A p \in Participants, s \in Studies, amount \in 0..U64Max :
          (AddRewardStep(p, s, amount) /\ last'.err = "Ok") =>
             /\ wallet'[p].total_rewards = wallet[p].total_rewards + amount
             /\ Len(wallet'[p].rewards) = Len(wallet[p].rewards) + 1
             /\ SubSeq(wallet'[p].rewards, 1, Len(wallet[p].rewards)) = wallet[p].rewards
             /\ wallet'[p].rewards[Len(wallet'[p].rewards)].amount = amount]_vars

\* C16: an addReward whose amount would take the total past the u64
\* maximum fails with RewardOverflow and leaves the wallet unchanged: the
\* total keeps its value and no reward or transaction entry is added.
C16_OverflowRefused ==
    [][\A p \in Participants, s \in Studies, amount \in 1..U64Max :
          wallet[p].total_rewards + amount > U64Max =>
             /\ (wallet[p].is_active /\ receive_reward(p, amount, TRUE, TRUE)) =>
                   last'.err = "RewardOverflow" /\ wallet' = wallet
             /\ (/\ wallet[p].is_initialized
                 /\ recru_search_receive_reward(p, s, wallet[p].phantom_address,
                                                amount, TRUE)) =>
                   last'.err = "RewardOverflow" /\ wallet' = wallet]_vars

\* A reward that overflows was refused on a wallet that already holds one
\* reward entry.
C16_OverflowAfterReward ==
    /\ last = [op |-> "receive_reward", err |-> "RewardOverflow"]
    /\ wallet["p1"].is_initialized
    /\ Len(wallet["p1"].rewards) = 1
    /\ wallet["p1"].total_rewards > 0

\* C17: in every state reachable by wallet initialization and addReward
\* calls, successful or not, a wallet's total equals the sum of the amounts
\* of its reward entries.
C17_TotalIsSumOfEntries ==
    \A p \in Participants :
       wallet[p].exists => wallet[p].total_rewards = SumAmounts(wallet[p].rewards)

(* ------------------------ properties: atomicity ------------------------ *)

Records == <<study, participant, researcher, consent, nft, wallet, admin>>

CreateStep(s, r, max_participants) ==
    \/ create_study(s, r, max_participants)
    \/ recru_search_create_study(s, r, max_participants)

\* C21: study creation is gated on verification: a create by a researcher
\* whose is_verified is false fails and creates no study, so every study
\* was created by a researcher verified at that time.
C21_CreateNeedsVerifiedResearcher ==
    [][\A s \in Studies, r \in Researchers, m \in 0..MaxCap :
          (CreateStep(s, r, m) /\ ~researcher[r].is_verified) =>
             /\ last'.err # "Ok"
             /\ study' = study]_vars

(* --------------------- properties: consent life cycle ------------------ *)

\* A revoke of participant p's consent that the token program accepts, by
\* either handler.
RevokeStep(p) ==
    \/ revoke_consent(p, TRUE)
    \/ \E s \in Studies : recru_search_revoke_consent(p, s, TRUE)

\* C22: consent revocation is one-way: a consent that is not active becomes
\* active only through a new issue, and a revoke for a participant whose
\* consent is not active fails without changing anything.  No handler
\* calls Consent::create or Consent::revoke, so the consent's is_active is
\* the participant's has_active_consent.
C22_RevocationOneWay ==
    [][\A p \in Participants :
          ~participant[p].has_active_consent =>
             /\ participant'[p].has_active_consent =>
                   \E s \in Studies, ok \in BOOLEAN :
                      issue_consent_nft(p, s, ok) \/ recru_search_issue_consent_nft(p, s, ok)
             /\ RevokeStep(p) =>
                   /\ last'.err # "Ok"
                   /\ UNCHANGED <<participant, study, consent, nft>>]_vars

(* ------------------------ properties: completion ----------------------- *)

\* complete(study, participant, researcher) through either handler, with
\* the reward transfer accepted.
CompleteStep(s, p, r) ==
    \/ complete_study(s, p, r)
    \/ recru_search_complete_study(s, p, r, TRUE)

\* C23: complete(study, participant, researcher) fails and changes nothing
\* when the participant has no open enrollment in the study.  The program
\* keeps no enrollment record per study, so the case checked is the
\* participant with no enrollment at all: both counters still zero, which
\* only a participant who never joined and never completed a study has.
C23_CompleteNeedsEnrollment ==
    [][\A s \in Studies, p \in Participants, r \in Researchers :
          (/\ participant[p].active_studies = 0
           /\ participant[p].completed_studies = 0
           /\ CompleteStep(s, p, r)) =>
              /\ last'.err # "Ok"
              /\ UNCHANGED <<study, participant, researcher>>]_vars

\* C24: a successful complete(study, participant, researcher) of an
\* enrolled participant changes the counters by exactly
\* study.completed_participants + 1, participant.completed_studies + 1,
\* participant.active_studies - 1, researcher.total_participants + 1, and
\* leaves study.current_participants unchanged.
C24_CompleteCounterDeltas ==
    [][\A s \in Studies, p \in Participants, r \in Researchers :
          (/\ participant[p].active_studies > 0
           /\ CompleteStep(s, p, r)
           /\ last'.err = "Ok") =>
              /\ study'[s].completed_participants = study[s].completed_participants + 1
              /\ participant'[p].completed_studies = participant[p].completed_studies + 1
              /\ participant'[p].active_studies = participant[p].active_studies - 1
              /\ researcher'[r].total_participants = researcher[r].total_participants + 1
              /\ study'[s].current_participants = study[s].current_participants]_vars

(* ------------------------ properties: arithmetic ----------------------- *)

\* A counter that the handlers move by one went from a to b by more than
\* one: the stored value wrapped.
Wrapped(a, b) == b - a > 1 \/ a - b > 1

\* C25: no counter update wraps or goes below zero silently: an increment
\* or decrement that would overflow or underflow makes the operation
\* return a specific error kind; it neither stores a wrapped value nor
\* aborts without an error kind (a panic).
C25_NoSilentWrapOrPanic ==
    [][/\ last'.err # "Panic"
       /\ \A a \in AdminAccounts :
             /\ ~Wrapped(admin[a].active_studies, admin'[a].active_studies)
             /\ ~Wrapped(admin[a].verified_researchers, admin'[a].verified_researchers)
             /\ ~Wrapped(admin[a].pending_verifications, admin'[a].pending_verifications)
       /\ \A s \in Studies :
             /\ ~Wrapped(study[s].completed_participants, study'[s].completed_participants)
             /\ ~Wrapped(study[s].consented_participants, study'[s].consented_participants)
       /\ \A p \in Participants :
             /\ ~Wrapped(participant[p].active_studies, participant'[p].active_studies)
             /\ ~Wrapped(participant[p].completed_studies, participant'[p].completed_studies)
       /\ \A r \in Researchers :
             ~Wrapped(researcher[r].total_participants, researcher'[r].total_participants)]_vars

(* ------------------------ properties: enrollment ----------------------- *)

\* C26: in every reachable state each participant's active_studies counter
\* equals the number of open enrollment records in the participant's
\* profile.
C26_ActiveStudiesMatchesProfile ==
    \A p \in Participants :
       participant[p].active_studies = Cardinality(participant[p].profile_active_studies)

(* ------------------ properties: verification bookkeeping --------------- *)

VerifiedResearchers == {r \in Researchers : researcher[r].is_verified}

\* C28: after any sequence of admin verify and reject operations the
\* admin's verified_researchers counter equals the number of researchers
\* whose is_verified flag is true.
C28_VerifiedCounterMatchesFlags ==
    \A a \in AdminAccounts :
       admin[a].exists =>
          admin[a].verified_researchers = Cardinality(VerifiedResearchers)

(* ---------------------- properties: consent counting ------------------- *)

\* C29: a study's consented_participants follows the active consents
\* issued for it: a successful issue for the study raises the count by 1
\* and a successful revoke lowers the count of a study by 1.
C29_ConsentedCountFollowsConsents ==
    [][\A p \in Participants :
          /\ \A s \in Studies :
                (IssueStep(p, s) /\ last'.err = "Ok") =>
                   study'[s].consented_participants =
                      study[s].consented_participants + 1
          /\ (RevokeStep(p) /\ last'.err = "Ok") =>
                \E s \in Studies :
                   study'[s].consented_participants =
                      study[s].consented_participants - 1]_vars

(* --------------------- properties: researcher counters ----------------- *)

\* C27: in every reachable state each researcher has
\* active_studies <= studies_created.
C27_ActiveWithinCreated ==
    \A r \in Researchers :
       researcher[r].active_studies <= researcher[r].studies_created

(* ------------------------ properties: eligibility ---------------------- *)

FeedbackStep(s, p, rating, feedback) ==
    \/ submit_study_feedback(s, rating, feedback)
    \/ recru_search_submit_study_feedback(s, p, rating, feedback)

\* C31: feedback with a rating outside 1..5, 0 included, fails with
\* InvalidRating, and feedback text longer than 500 characters fails with
\* FeedbackTooLong; either way the study and the participant are unchanged.
C31_FeedbackRejectsBadInput ==
    [][\A s \in Studies, p \in Participants, r \in Ratings, f \in Feedbacks :
          FeedbackStep(s, p, r, f) =>
             /\ ~(r >= 1 /\ r <= MaxRating) =>
                   /\ last'.err = "InvalidRating"
                   /\ UNCHANGED <<study, participant>>
             /\ (r >= 1 /\ r <= MaxRating /\ f # None /\ f > MaxFeedbackLen) =>
                   /\ last'.err = "FeedbackTooLong"
                   /\ UNCHANGED <<study, participant>>]_vars

\* C32: every successful feedback call with rating r moves the study's
\* average_rating from old to (old * n + r) / (n + 1) for the number n of
\* ratings recorded before the call, so that the average stays the mean of
\* the ratings given.  Averages are the exact fractions num / den.
C32_RunningAverage ==
    [][\A s \in Studies, p \in Participants, r \in 1..MaxRating, f \in Feedbacks :
          (FeedbackStep(s, p, r, f) /\ last'.err = "Ok") =>
             LET old == study[s].average_rating
                 new == study'[s].average_rating
             IN  \E n \in 0..U32Max :
                    new.num * old.den * (n + 1) = (old.num * n + r * old.den) * new.den]_vars

(* ------------------------ properties: ownership ------------------------ *)

\* A self-service instruction on the record of participant p signed by
\* signer.
SelfServiceStep(signer, p) ==
    \/ JoinStudy(signer, "s1", p)
    \/ IssueConsentNFT(signer, p, "s1")
    \/ RevokeConsent(signer, p)
    \/ \E i \in 0..MaxLen : update_interests(signer, p, i)
    \/ \E i \in 0..MaxLen : update_participant_profile(signer, p, i)

\* C33: a self-service instruction on a participant's record signed by
\* anyone but the record's authority fails and leaves that record
\* unchanged.
C33_OnlyOwnerActs ==
    [][\A signer \in Signers, p \in Participants :
          (SelfServiceStep(signer, p) /\ signer # participant[p].authority) =>
             /\ last'.err # "Ok"
             /\ participant'[p] = participant[p]]_vars

(* ----------------------- properties: independence ---------------------- *)

\* C34: two enrollments in different studies by different participants
\* commute: in either order each returns the same result and the study
\* and participant accounts end up the same.
C34_DisjointJoinsCommute ==
    \A s1, s2 \in Studies, p1, p2 \in Participants :
       (s1 # s2 /\ p1 # p2 /\ study[s1].exists /\ study[s2].exists) =>
          LET a == join_study_apply(study, participant, s1, p1)
              ab == join_study_apply(a.study, a.participant, s2, p2)
              b == join_study_apply(study, participant, s2, p2)
              ba == join_study_apply(b.study, b.participant, s1, p1)
          IN  /\ a.err = ba.err
              /\ b.err = ab.err
              /\ ab.study = ba.study
              /\ ab.participant = ba.participant

\* Both studies hold a participant and both participants an enrollment,
\* after enrollments of p1 and p2 in different studies.
C34_BothJoined ==
    /\ last = [op |-> "join_study", err |-> "Ok"]
    /\ \A s \in Studies : study[s].current_participants = 1
    /\ \A p \in Participants : participant[p].active_studies = 1

(* --------------------- properties: participant status ------------------ *)

\* C35: a newly registered participant has status Unverified, and
\* update_status on a participant whose status is Unverified or Verified
\* fails with InvalidParticipantAction and leaves the status as it is.
C35_UnverifiedStays ==
    [][\A p \in Participants :
          /\ recru_search_register_participant(p) =>
                participant'[p].status = Participant_new(p).status
          /\ \A st \in ParticipantStatusAll, reason \in {None, 1} :
                (update_status(p, st, reason)
                   /\ participant[p].status \in {"Unverified", "Verified"}) =>
                   /\ last'.err = "InvalidParticipantAction"
                   /\ participant'[p] = participant[p]]_vars

(* --------------------- properties: consent registry -------------------- *)

ActiveStatusStudies == {s \in Studies : study[s].exists /\ study[s].status = "Active"}

\* C37: dashboard.active_studies follows the number of studies whose
\* status is Active: a successful status update by the admin moves the
\* counter by exactly the change of that number, and the counter stays a
\* count of studies (it never passes below zero).
C37_DashboardCountsActiveStudies ==
    [][\A s \in Studies, st \in StudyStatusAll :
          (AdminStatusUpdate(s, st) /\ last'.err = "Ok") =>
             /\ admin'["a1"].active_studies - admin["a1"].active_studies =
                   Cardinality(ActiveStatusStudies') - Cardinality(ActiveStatusStudies)
             /\ admin'["a1"].active_studies <= Cardinality(Studies)]_vars

(* --------------------------- properties: bans -------------------------- *)

\* C38: a ban is permanent: once a participant's banned flag is set, no
\* step clears it, whatever Suspend, Unsuspend or Ban actions follow.
C38_BanIsPermanent ==
    [][\A p \in Participants :
          participant[p].banned => participant'[p].banned]_vars

\* A banned participant after a further successful manage_participant:
\* banned, and suspended by a Suspend action.
C38_BannedAndSuspended ==
    /\ last = [op |-> "manage_participant", err |-> "Ok"]
    /\ participant["p1"].banned
    /\ participant["p1"].suspended

(* ----------------------- properties: conservation ---------------------- *)

\* C39: in every reachable state the active_studies of all participants
\* add up to the current_participants of all studies minus their
\* completed_participants.
C39_EnrollmentsConserved ==
    SumOver([p \in Participants |-> participant[p].active_studies], Participants) =
       SumOver([s \in Studies |-> study[s].current_participants], Studies)
          - SumOver([s \in Studies |-> study[s].completed_participants], Studies)

(* -------------------- properties: repeated enrollment ------------------ *)

\* No participant other than p has ever enrolled in a study.
OnlyEverEnrolled(p) ==
    \A q \in Participants \ {p} :
       participant[q].active_studies = 0 /\ participant[q].completed_studies = 0

\* C40: a participant holds at most one enrollment per study: when p is
\* the only participant who ever enrolled and study s already holds a
\* participant, a further enrollment of p in s fails and takes no slot.
C40_NoSecondEnrollment ==
    [][\A s \in Studies, p \in Participants :
          (/\ JoinStep(s, p)
           /\ OnlyEverEnrolled(p)
           /\ study[s].current_participants >= 1) =>
             /\ last'.err # "Ok"
             /\ study'[s].current_participants = study[s].current_participants]_vars

====
